---- MODULE Spec2Model ----
(***************************************************************************)
(* Model of the QuantikAI financial RAG service (main.py) and of its two   *)
(* corpus preparation scripts (prepare_corpus.py, prepare_corpus_new.py).  *)
(*                                                                         *)
(* Text is modelled as a sequence of tokens: a token stands for a run of   *)
(* characters ("RAG_CORPUS=", a resource name, a text part of a model      *)
(* event) and NL for the newline character, so that joining, splitting     *)
(* into lines and prefix tests are computed, not assumed.                  *)
(***************************************************************************)
EXTENDS Integers, Sequences, FiniteSets, TLC

(* ------------------------------ bounds -------------------------------- *)

\* number of POST /query requests a run of the service receives
MaxReq == 2

\* number of events one run of the agent yields at most
MaxEvents == 1

\* number of GET /health requests a run of the service receives
MaxHealth == 1

\* number of entries of the data directory at most
MaxFiles == 2

\* number of lines of the .env file a preparation script starts from at most
MaxEnvLines == 2

\* number of runs of a preparation script
MaxRuns == 2

(* ------------------------------ values -------------------------------- *)

\* Python's None (also: a variable of the environment that is not set)
None == "None"

\* the newline character
NL == "\n"

\* the empty string
Empty == ""

\* the tokens of a text
Range(s) == {s[i] : i \in 1..Len(s)}

Reqs == 1..MaxReq

\* request bodies {"question": ...}
Questions == {"What is the invoice total?"}

\* event.content of the events of Runner.run_async: None (no content), or
\* the texts of its parts, in order; a part without text has text Empty
EventContents == {<<None>>, <<>>, <<Empty>>, <<"a">>, <<"b", Empty, "a">>}

\* what create_session and run_async raise
Errors == {"ProviderUnavailable", "ProviderTimeout"}

\* what LlmAgent, InMemorySessionService and Runner raise when they fail
InitFailures == {"LlmAgent", "InMemorySessionService", "Runner"}

(* ------------------------------ state --------------------------------- *)

VARIABLES
    envFile,          \* the .env file: [exists, content]
    proc,             \* the service process: "off", "serving", "exited"
    PROJECT_ID,       \* main.py, module level
    RAG_CORPUS,       \* main.py, module level
    INDEXING_MODE,    \* os.environ["INDEXING_MODE"] of the service process
    rag_agent,        \* main.py, module level: None or the agent
    rag_runner,       \* main.py, module level: None or the runner
    session_service,  \* main.py, module level: None or the session service
    sessions,         \* the sessions the InMemorySessionService holds
    uuidCount,        \* number of uuid4() values drawn so far
    initCalls,        \* number of calls of initialize_rag_components
    initRaised,       \* None, or the constructor that raised in it
    req,              \* the POST /query requests: handler position, locals, response
    healthLog,        \* the responses of GET /health, with the state they were given in
    dataDir,          \* the data/ directory: [exists, files], files in listing order
    cloud,            \* the project's cloud resources and the calls that created them
    prep,             \* the run of a preparation script: position in main(), locals, result
    runs              \* number of runs of a preparation script so far

serviceVars == <<proc, PROJECT_ID, RAG_CORPUS, INDEXING_MODE, rag_agent, rag_runner,
                 session_service, sessions, uuidCount, initCalls, initRaised, req,
                 healthLog>>

prepVars == <<dataDir, cloud, prep, runs>>

vars == <<envFile, serviceVars, prepVars>>

(* --------------------------- the .env file ---------------------------- *)

\* file.readlines(): the lines of a text, each with its newline; the last
\* line has none when the text does not end in one
RECURSIVE ReadLinesFrom(_, _, _)
ReadLinesFrom(s, cur, acc) ==
    IF s = <<>> THEN (IF cur = <<>> THEN acc ELSE Append(acc, cur))
    ELSE IF Head(s) = NL THEN ReadLinesFrom(Tail(s), <<>>, Append(acc, Append(cur, NL)))
    ELSE ReadLinesFrom(Tail(s), Append(cur, Head(s)), acc)

ReadLines(s) == ReadLinesFrom(s, <<>>, <<>>)

\* str.startswith(key) of a line
StartsWith(line, key) == Len(line) > 0 /\ line[1] = key

\* the value of a KEY=value line: what follows the key, without the newline
LineValue(line) ==
    IF Len(line) >= 2 /\ line[2] # NL THEN line[2] ELSE Empty

\* load_dotenv() followed by os.getenv(key): a variable of the process
\* environment wins, else the last KEY= line of .env, else None
RECURSIVE LastValue(_, _, _)
LastValue(lines, key, found) ==
    IF lines = <<>> THEN found
    ELSE LastValue(Tail(lines), key,
                   IF StartsWith(Head(lines), key) THEN LineValue(Head(lines)) ELSE found)

GetEnv(osValue, key) ==
    IF osValue # None THEN osValue
    ELSE IF envFile.exists THEN LastValue(ReadLines(envFile.content), key, None)
    ELSE None

\* Python's truth value of an optional string
Truthy(s) == s # None /\ s # Empty

(* ------------------------- main.py: responses ------------------------- *)

NotReadyDetail == <<"RAG agent is not initialized. Please ensure the server has started correctly.">>

ErrorDetail(e) == <<"An error occurred while processing the query: ", e>>

DefaultAnswer == <<"No response generated.">>

HealthBody == <<"status", "OK">>

\* " ".join(answer_parts)
RECURSIVE Join(_)
Join(parts) ==
    IF parts = <<>> THEN <<>>
    ELSE IF Len(parts) = 1 THEN parts
    ELSE <<Head(parts), " ">> \o Join(Tail(parts))

\* the loop body over one event: the texts of its parts that are not empty
RECURSIVE PartTexts(_)
PartTexts(content) ==
    IF content = <<>> THEN <<>>
    ELSE IF Head(content) # Empty THEN <<Head(content)>> \o PartTexts(Tail(content))
    ELSE PartTexts(Tail(content))

EventTexts(content) ==
    IF content = <<None>> \/ content = <<>> THEN <<>> ELSE PartTexts(content)

\* the tools the agent is constructed with: LlmAgent(model, name, instruction)
LlmAgentTools == {}

IdleRequest ==
    [pc |-> "idle", question |-> None, session_id |-> 0, answer_parts |-> <<>>,
     nevents |-> 0, raised |-> None, ran |-> FALSE, retrieved |-> FALSE,
     provided |-> <<>>, status |-> 0, body |-> <<>>, created |-> FALSE,
     run_session |-> 0]

Ready == rag_runner # None /\ session_service # None

(* --------------------------- main.py: startup ------------------------- *)

\* initialize_rag_components: the three constructors in order, the globals
\* assigned up to the one that raises; the exception is raised again
InitAssigned(failure, name, value) ==
    CASE failure = None -> value
      [] failure = "LlmAgent" -> None
      [] failure = "InMemorySessionService" -> IF name = "rag_agent" THEN value ELSE None
      [] failure = "Runner" -> IF name = "rag_runner" THEN None ELSE value

initialize_rag_components(failure) ==
    /\ rag_agent' = InitAssigned(failure, "rag_agent", "financial_assistant")
    /\ session_service' = InitAssigned(failure, "session_service", "InMemorySessionService")
    /\ rag_runner' = InitAssigned(failure, "rag_runner", "financial_rag_api")
    /\ initCalls' = initCalls + 1
    /\ initRaised' = failure

\* python main.py: the module level code and the startup event. A missing
\* PROJECT_ID raises at import; an exception of the startup event fails the
\* application startup and the server exits without accepting connections.
Startup(osProject, osCorpus, osIndexing, failure) ==
    /\ proc = "off"
    /\ PROJECT_ID' = GetEnv(osProject, "PROJECT_ID=")
    /\ RAG_CORPUS' = GetEnv(osCorpus, "RAG_CORPUS=")
    /\ INDEXING_MODE' = osIndexing
    /\ IF ~Truthy(PROJECT_ID')
       THEN /\ proc' = "exited"
            /\ UNCHANGED <<rag_agent, rag_runner, session_service, initCalls, initRaised>>
       ELSE IF osIndexing # "true"
            THEN /\ initialize_rag_components(failure)
                 /\ proc' = IF failure = None THEN "serving" ELSE "exited"
            ELSE /\ proc' = "serving"
                 /\ UNCHANGED <<rag_agent, rag_runner, session_service, initCalls,
                                initRaised>>
    /\ UNCHANGED <<prepVars, envFile, sessions, uuidCount, req, healthLog>>

(* --------------------------- main.py: /health ------------------------- *)

\* a health check that reports readiness: 503 until the components exist
health_check_ReportsReadiness ==
    /\ proc = "serving"
    /\ Len(healthLog) < MaxHealth
    /\ healthLog' = Append(healthLog,
                           [status |-> IF Ready THEN 200 ELSE 503, body |-> HealthBody,
                            ready |-> Ready,
                            failed |-> \E r \in Reqs : req[r].status = 500])
    /\ UNCHANGED <<prepVars, envFile, proc, PROJECT_ID, RAG_CORPUS, INDEXING_MODE, rag_agent,
                   rag_runner, session_service, sessions, uuidCount, initCalls,
                   initRaised, req>>

health_check ==
    /\ proc = "serving"
    /\ Len(healthLog) < MaxHealth
    /\ healthLog' = Append(healthLog,
                           [status |-> 200, body |-> HealthBody, ready |-> Ready,
                            failed |-> \E r \in Reqs : req[r].status = 500])
    /\ UNCHANGED <<prepVars, envFile, proc, PROJECT_ID, RAG_CORPUS, INDEXING_MODE, rag_agent,
                   rag_runner, session_service, sessions, uuidCount, initCalls,
                   initRaised, req>>

(* --------------------------- main.py: /query -------------------------- *)

\* an except clause that swallows the error into the default answer
QueryExcept_Swallows(r, e) ==
    [req[r] EXCEPT !.pc = "done", !.raised = e, !.status = 200, !.body = DefaultAnswer,
                   !.answer_parts = <<>>, !.nevents = 0]

\* the except clause of query_rag: HTTPException(500, detail with the error)
QueryExcept(r, e) ==
    [req[r] EXCEPT !.pc = "done", !.raised = e, !.status = 500, !.body = ErrorDetail(e),
                   !.answer_parts = <<>>, !.nevents = 0]

\* a query_rag without the readiness check
QueryBegin_NoReadinessCheck(r, q) ==
    /\ proc = "serving"
    /\ req[r].pc = "idle"
    /\ \A p \in Reqs : p < r => req[p].pc # "idle"
    /\ req' = [req EXCEPT ![r] = [@ EXCEPT !.pc = "create_session", !.question = q,
                                          !.session_id = uuidCount + 1]]
    /\ uuidCount' = uuidCount + 1
    /\ UNCHANGED <<prepVars, envFile, proc, PROJECT_ID, RAG_CORPUS, INDEXING_MODE, rag_agent,
                   rag_runner, session_service, sessions, initCalls, initRaised,
                   healthLog>>

\* a query_rag that initializes the components on first use when they are missing
QueryBegin_LazyInit(r, q) ==
    /\ proc = "serving"
    /\ req[r].pc = "idle"
    /\ \A p \in Reqs : p < r => req[p].pc # "idle"
    /\ IF rag_runner = None \/ session_service = None
       THEN initialize_rag_components(None)
       ELSE UNCHANGED <<rag_agent, rag_runner, session_service, initCalls, initRaised>>
    /\ req' = [req EXCEPT ![r] = [@ EXCEPT !.pc = "create_session", !.question = q,
                                          !.session_id = uuidCount + 1]]
    /\ uuidCount' = uuidCount + 1
    /\ UNCHANGED <<prepVars, envFile, proc, PROJECT_ID, RAG_CORPUS, INDEXING_MODE, sessions,
                   healthLog>>

\* the readiness check of query_rag; when it passes, up to the call of
\* session_service.create_session with a fresh uuid4 session id
QueryBegin(r, q) ==
    /\ proc = "serving"
    /\ req[r].pc = "idle"
    /\ \A p \in Reqs : p < r => req[p].pc # "idle"
    /\ IF rag_runner = None \/ session_service = None
       THEN /\ req' = [req EXCEPT ![r] = [@ EXCEPT !.pc = "done", !.question = q,
                                                 !.status = 503,
                                                 !.body = NotReadyDetail]]
            /\ UNCHANGED uuidCount
       ELSE /\ req' = [req EXCEPT ![r] = [@ EXCEPT !.pc = "create_session",
                                                 !.question = q,
                                                 !.session_id = uuidCount + 1]]
            /\ uuidCount' = uuidCount + 1
    /\ UNCHANGED <<prepVars, envFile, proc, PROJECT_ID, RAG_CORPUS, INDEXING_MODE, rag_agent,
                   rag_runner, session_service, sessions, initCalls, initRaised,
                   healthLog>>

\* await session_service.create_session(...) returns
CreateSession(r) ==
    /\ req[r].pc = "create_session"
    /\ sessions' = sessions \cup {req[r].session_id}
    /\ req' = [req EXCEPT ![r] = [@ EXCEPT !.pc = "run_async", !.created = TRUE]]
    /\ UNCHANGED <<prepVars, envFile, proc, PROJECT_ID, RAG_CORPUS, INDEXING_MODE, rag_agent,
                   rag_runner, session_service, uuidCount, initCalls, initRaised,
                   healthLog>>

\* await session_service.create_session(...) raises
CreateSessionRaises(r, e) ==
    /\ req[r].pc = "create_session"
    /\ req' = [req EXCEPT ![r] = QueryExcept(r, e)]
    /\ UNCHANGED <<prepVars, envFile, proc, PROJECT_ID, RAG_CORPUS, INDEXING_MODE, rag_agent,
                   rag_runner, session_service, sessions, uuidCount, initCalls,
                   initRaised, healthLog>>

\* rag_runner.run_async(user_id, session_id, new_message): the agent starts
\* on the question; it retrieves only through a retrieval tool of the agent
RunAsync(r) ==
    /\ req[r].pc = "run_async"
    /\ req' = [req EXCEPT ![r] = [@ EXCEPT !.pc = "iterating", !.ran = TRUE,
                                          !.run_session = req[r].session_id,
                                          !.retrieved = ("retrieval" \in LlmAgentTools),
                                          !.answer_parts = <<>>]]
    /\ UNCHANGED <<prepVars, envFile, proc, PROJECT_ID, RAG_CORPUS, INDEXING_MODE, rag_agent,
                   rag_runner, session_service, sessions, uuidCount, initCalls,
                   initRaised, healthLog>>

\* one iteration of the async for: the texts of the event's parts are appended
RunEvent(r, content) ==
    /\ req[r].pc = "iterating"
    /\ req[r].nevents < MaxEvents
    /\ req' = [req EXCEPT ![r] = [@ EXCEPT !.nevents = @ + 1,
                                          !.answer_parts = @ \o EventTexts(content),
                                          !.provided = @ \o EventTexts(content)]]
    /\ UNCHANGED <<prepVars, envFile, proc, PROJECT_ID, RAG_CORPUS, INDEXING_MODE, rag_agent,
                   rag_runner, session_service, sessions, uuidCount, initCalls,
                   initRaised, healthLog>>

\* a handler that drops the runner when the agent run fails
RunRaises_DropsRunner(r, e) ==
    /\ req[r].pc \in {"run_async", "iterating"}
    /\ req' = [req EXCEPT ![r] = QueryExcept(r, e)]
    /\ rag_runner' = None
    /\ UNCHANGED <<prepVars, envFile, proc, PROJECT_ID, RAG_CORPUS, INDEXING_MODE, rag_agent,
                   session_service, sessions, uuidCount, initCalls, initRaised,
                   healthLog>>

\* the agent run raises (at its start or between two events)
RunRaises(r, e) ==
    /\ req[r].pc \in {"run_async", "iterating"}
    /\ req' = [req EXCEPT ![r] = QueryExcept(r, e)]
    /\ UNCHANGED <<prepVars, envFile, proc, PROJECT_ID, RAG_CORPUS, INDEXING_MODE, rag_agent,
                   rag_runner, session_service, sessions, uuidCount, initCalls,
                   initRaised, healthLog>>

\* the answer of query_rag from the collected parts
Answer(answer_parts) ==
    IF answer_parts # <<>> THEN Join(answer_parts) ELSE DefaultAnswer

\* a handler that deletes its session once the answer is complete
RunEnd_DeletesSession(r) ==
    /\ req[r].pc = "iterating"
    /\ req' = [req EXCEPT ![r] = [@ EXCEPT !.pc = "done", !.status = 200,
                                          !.body = Answer(req[r].answer_parts),
                                          !.answer_parts = <<>>, !.nevents = 0]]
    /\ sessions' = sessions \ {req[r].session_id}
    /\ UNCHANGED <<prepVars, envFile, proc, PROJECT_ID, RAG_CORPUS, INDEXING_MODE, rag_agent,
                   rag_runner, session_service, uuidCount, initCalls,
                   initRaised, healthLog>>

\* the async for ends: QueryResponse(answer=answer), 200
RunEnd(r) ==
    /\ req[r].pc = "iterating"
    /\ req' = [req EXCEPT ![r] = [@ EXCEPT !.pc = "done", !.status = 200,
                                          !.body = Answer(req[r].answer_parts),
                                          !.answer_parts = <<>>, !.nevents = 0]]
    /\ UNCHANGED <<prepVars, envFile, proc, PROJECT_ID, RAG_CORPUS, INDEXING_MODE, rag_agent,
                   rag_runner, session_service, sessions, uuidCount, initCalls,
                   initRaised, healthLog>>

(* ------------------- the preparation scripts: values ------------------ *)

\* the names of the entries of data/, as tokens
Files == {<<"inv1", ".pdf">>, <<"inv2", ".pdf">>, <<"notes", ".txt">>,
          <<"scan", ":Zone.Identifier", ".pdf">>}

\* the listings of a directory of at most MaxFiles entries
Listings ==
    UNION {{l \in [1..n -> Files] : \A i, j \in 1..n : i # j => l[i] # l[j]} :
           n \in 0..MaxFiles}

DataDirs ==
    {[exists |-> FALSE, files |-> <<>>]} \cup {[exists |-> TRUE, files |-> l] : l \in Listings}

\* data_path.glob("*.pdf") matches a name
MatchesPdf(f) == f[Len(f)] = ".pdf"

\* ":Zone.Identifier" in str(pdf_file)
HasZoneIdentifier(f) == ":Zone.Identifier" \in Range(f)

\* pdf_files = list(data_path.glob("*.pdf")); empty when data/ does not exist
pdf_files == IF dataDir.exists THEN SelectSeq(dataDir.files, MatchesPdf) ELSE <<>>

\* the lines a .env file is made of before a script runs
EnvLineBodies ==
    {<<>>, <<"PROJECT_ID=", "quantik">>, <<"RAG_CORPUS=", "corpus0">>,
     <<"DATA_STORE_NAME=", "store0">>, <<"BUCKET_NAME=", "bucket0">>}

\* f.writelines(lines): the strings one after the other
RECURSIVE WriteLines(_)
WriteLines(lines) ==
    IF Len(lines) = 0 THEN <<>> ELSE Head(lines) \o WriteLines(Tail(lines))

\* a text of the given lines, the last one with or without its newline
EnvText(bodies, trailing) ==
    WriteLines([i \in 1..Len(bodies) |->
                   IF i < Len(bodies) \/ trailing THEN Append(bodies[i], NL)
                   ELSE bodies[i]])

EnvFiles ==
    {[exists |-> FALSE, content |-> <<>>]} \cup
    {[exists |-> TRUE, content |-> EnvText(b, t)] :
        b \in UNION {[1..n -> EnvLineBodies] : n \in 0..MaxEnvLines}, t \in BOOLEAN}

\* a value inside an f-string: nothing when it is the empty string
Tok(value) == IF value = Empty THEN <<>> ELSE <<value>>

\* os.getenv(key, default) after load_dotenv()
GetEnvDefault(key, default) ==
    IF GetEnv(None, key) = None THEN default ELSE GetEnv(None, key)

\* [line for line in lines if not line.startswith(key)]
RemoveKey(lines, key) == SelectSeq(lines, LAMBDA line : ~StartsWith(line, key))

\* the lines read by update_env_file: those of .env, none when it does not exist
EnvLines == IF envFile.exists THEN ReadLines(envFile.content) ELSE <<>>

\* an update_env_file that appends the RAG_CORPUS line without the newline before it
UpdatedLines_NoLeadingNewline(lines, name) ==
    Append(RemoveKey(lines, "RAG_CORPUS="), <<"RAG_CORPUS=">> \o Tok(name) \o <<NL>>)

\* prepare_corpus.py, update_env_file: the lines written back
UpdatedLines(lines, name) ==
    Append(RemoveKey(lines, "RAG_CORPUS="), <<NL, "RAG_CORPUS=">> \o Tok(name) \o <<NL>>)

\* prepare_corpus_new.py, update_env_file: the lines written back
UpdatedLinesNew(lines, storeName, bucketName, name) ==
    RemoveKey(RemoveKey(RemoveKey(lines, "RAG_CORPUS="), "DATA_STORE_NAME="), "BUCKET_NAME=")
    \o << <<NL, "# Vertex AI Search Configuration", NL>>,
          <<"DATA_STORE_NAME=">> \o Tok(storeName) \o <<NL>>,
          <<"BUCKET_NAME=">> \o Tok(bucketName) \o <<NL>>,
          <<"RAG_CORPUS=">> \o Tok(name) \o <<NL>> >>

IdlePrep ==
    [script |-> None, pc |-> "idle", PROJECT_ID |-> None, DATA_STORE_NAME |-> None,
     BUCKET_NAME |-> None, corpus |-> None, bucket |-> None, data_store |-> None,
     fileIdx |-> 0, uploaded |-> <<>>, attempted |-> <<>>, succeeded |-> <<>>,
     raisedIn |-> None, rc |-> -1,
     env0 |-> [exists |-> FALSE, content |-> <<>>],
     bucketLookup |-> None, storeLookup |-> None, prevOk |-> FALSE]

NoCloud ==
    [corpora |-> 0, buckets |-> {}, dataStores |-> {}, bucketCreates |-> 0,
     dataStoreCreates |-> 0, imports |-> 0]

(* ------------------- the preparation scripts: main() ------------------ *)

\* python prepare_corpus.py / prepare_corpus_new.py: the module level code.
\* A missing PROJECT_ID raises before main() is called.
PrepImport(s, osProject) ==
    /\ prep.pc \in {"idle", "done", "import_error"}
    /\ runs < MaxRuns
    /\ runs' = runs + 1
    /\ LET project == GetEnv(osProject, "PROJECT_ID=")
           new == s = "prepare_corpus_new"
       IN prep' = [IdlePrep EXCEPT
              !.script = s,
              !.env0 = envFile,
              !.prevOk = (prep.script = "prepare_corpus_new" /\ prep.pc = "done"
                          /\ prep.rc = 0),
              !.PROJECT_ID = project,
              !.DATA_STORE_NAME =
                  IF new THEN GetEnvDefault("DATA_STORE_NAME=", "financial-documents")
                  ELSE None,
              !.BUCKET_NAME =
                  IF new THEN GetEnvDefault("BUCKET_NAME=", project \o "-rag-documents")
                  ELSE None,
              !.pc = IF ~Truthy(project) THEN "import_error"
                     ELSE IF new THEN "create_gcs_bucket" ELSE "create_corpus"]
    /\ UNCHANGED <<envFile, serviceVars, dataDir, cloud>>

\* an except clause of main() that reports success
MainExcept_Returns0(step) == [prep EXCEPT !.pc = "done", !.rc = 0, !.raisedIn = step]

\* the except clause of main(): "Setup failed", return 1
MainExcept(step) == [prep EXCEPT !.pc = "done", !.rc = 1, !.raisedIn = step]

\* prepare_corpus.py, create_corpus: rag.create_corpus returns a new corpus, or raises
create_corpus(ok) ==
    /\ prep.script = "prepare_corpus" /\ prep.pc = "create_corpus"
    /\ IF ok
       THEN /\ cloud' = [cloud EXCEPT !.corpora = @ + 1]
            /\ prep' = [prep EXCEPT !.corpus = "ragCorpora/" \o ToString(cloud.corpora + 1),
                                    !.pc = "upload_documents", !.fileIdx = 1]
       ELSE /\ prep' = MainExcept("create_corpus")
            /\ UNCHANGED cloud
    /\ UNCHANGED <<envFile, serviceVars, dataDir, runs>>

\* an upload loop without the try: the first failing file ends the batch
upload_file_AbortsBatch(ok) ==
    /\ prep.script = "prepare_corpus" /\ prep.pc = "upload_documents"
    /\ prep.fileIdx <= Len(pdf_files)
    /\ prep' = IF ok
               THEN [prep EXCEPT
                        !.fileIdx = @ + 1,
                        !.attempted = Append(@, pdf_files[prep.fileIdx]),
                        !.succeeded = Append(@, pdf_files[prep.fileIdx]),
                        !.uploaded = Append(@, pdf_files[prep.fileIdx])]
               ELSE [MainExcept("upload_documents") EXCEPT
                        !.attempted = Append(@, pdf_files[prep.fileIdx])]
    /\ UNCHANGED <<envFile, serviceVars, dataDir, cloud, runs>>

\* prepare_corpus.py, upload_documents: one iteration of the loop over pdf_files
upload_file(ok) ==
    /\ prep.script = "prepare_corpus" /\ prep.pc = "upload_documents"
    /\ prep.fileIdx <= Len(pdf_files)
    /\ prep' = [prep EXCEPT
           !.fileIdx = @ + 1,
           !.attempted = Append(@, pdf_files[prep.fileIdx]),
           !.succeeded = IF ok THEN Append(@, pdf_files[prep.fileIdx]) ELSE @,
           !.uploaded = IF ok THEN Append(@, pdf_files[prep.fileIdx]) ELSE @]
    /\ UNCHANGED <<envFile, serviceVars, dataDir, cloud, runs>>

\* prepare_corpus.py, upload_documents returns (at once when there is no PDF)
upload_documents_returns ==
    /\ prep.script = "prepare_corpus" /\ prep.pc = "upload_documents"
    /\ prep.fileIdx > Len(pdf_files)
    /\ prep' = [prep EXCEPT !.pc = "update_env_file"]
    /\ UNCHANGED <<envFile, serviceVars, dataDir, cloud, runs>>

\* update_env_file of either script; the summary of main() and return 0 follow.
\* It raises when .env cannot be read or opened for writing (the file is left
\* as it was) or while it is written (the file holds the first strings of the
\* list only).
update_env_file(outcome) ==
    /\ prep.pc = "update_env_file"
    /\ LET lines == IF prep.script = "prepare_corpus"
                    THEN UpdatedLines(EnvLines, prep.corpus)
                    ELSE UpdatedLinesNew(EnvLines, prep.DATA_STORE_NAME,
                                         prep.BUCKET_NAME, prep.data_store)
       IN CASE outcome = "written" ->
                 /\ envFile' = [exists |-> TRUE, content |-> WriteLines(lines)]
                 /\ prep' = [prep EXCEPT !.pc = "done", !.rc = 0]
            [] outcome = "read_raises" ->
                 /\ envFile.exists
                 /\ UNCHANGED envFile
                 /\ prep' = MainExcept("update_env_file")
            [] outcome = "open_raises" ->
                 /\ UNCHANGED envFile
                 /\ prep' = MainExcept("update_env_file")
            [] outcome = "write_raises" ->
                 /\ \E k \in 0..(Len(lines) - 1) :
                        envFile' = [exists |-> TRUE,
                                    content |-> WriteLines(SubSeq(lines, 1, k))]
                 /\ prep' = MainExcept("update_env_file")
    /\ UNCHANGED <<serviceVars, dataDir, cloud, runs>>

\* a create_gcs_bucket that calls create_bucket whatever get_bucket answered
create_gcs_bucket_AlwaysCreates(outcome) ==
    /\ prep.script = "prepare_corpus_new" /\ prep.pc = "create_gcs_bucket"
    /\ CASE outcome = "client_raises" ->
                 /\ prep' = MainExcept("create_gcs_bucket")
                 /\ UNCHANGED cloud
         [] outcome = "found" ->
                 /\ prep.BUCKET_NAME \in cloud.buckets
                 /\ cloud' = [cloud EXCEPT !.bucketCreates = @ + 1]
                 /\ prep' = [MainExcept("create_gcs_bucket") EXCEPT !.bucketLookup = "found"]
         [] outcome = "created" ->
                 /\ prep.BUCKET_NAME \notin cloud.buckets
                 /\ cloud' = [cloud EXCEPT !.buckets = @ \cup {prep.BUCKET_NAME},
                                           !.bucketCreates = @ + 1]
                 /\ prep' = [prep EXCEPT !.bucket = prep.BUCKET_NAME,
                                         !.bucketLookup = "raised",
                                         !.pc = "upload_pdfs_to_gcs", !.fileIdx = 1]
         [] outcome = "create_raises" ->
                 /\ cloud' = [cloud EXCEPT !.bucketCreates = @ + 1]
                 /\ prep' = [MainExcept("create_gcs_bucket") EXCEPT !.bucketLookup = "raised"]
    /\ UNCHANGED <<envFile, serviceVars, dataDir, runs>>

\* prepare_corpus_new.py, create_gcs_bucket: the client, get_bucket, create_bucket
create_gcs_bucket(outcome) ==
    /\ prep.script = "prepare_corpus_new" /\ prep.pc = "create_gcs_bucket"
    /\ CASE outcome = "client_raises" ->
                 /\ prep' = MainExcept("create_gcs_bucket")
                 /\ UNCHANGED cloud
         [] outcome = "found" ->
                 /\ prep.BUCKET_NAME \in cloud.buckets
                 /\ prep' = [prep EXCEPT !.bucket = prep.BUCKET_NAME,
                                         !.bucketLookup = "found",
                                         !.pc = "upload_pdfs_to_gcs", !.fileIdx = 1]
                 /\ UNCHANGED cloud
         [] outcome = "created" ->
                 /\ prep.BUCKET_NAME \notin cloud.buckets
                 /\ cloud' = [cloud EXCEPT !.buckets = @ \cup {prep.BUCKET_NAME},
                                           !.bucketCreates = @ + 1]
                 /\ prep' = [prep EXCEPT !.bucket = prep.BUCKET_NAME,
                                         !.bucketLookup = "raised",
                                         !.pc = "upload_pdfs_to_gcs", !.fileIdx = 1]
         [] outcome = "create_raises" ->
                 /\ cloud' = [cloud EXCEPT !.bucketCreates = @ + 1]
                 /\ prep' = [MainExcept("create_gcs_bucket") EXCEPT !.bucketLookup = "raised"]
    /\ UNCHANGED <<envFile, serviceVars, dataDir, runs>>

\* uri = f"gs://{BUCKET_NAME}/{blob_name}", blob_name = f"documents/{pdf_file.name}"
GcsUri(bucketName, f) == <<"gs://", bucketName, "/documents/">> \o f

\* prepare_corpus_new.py, upload_pdfs_to_gcs: one iteration of the loop
upload_blob(ok) ==
    /\ prep.script = "prepare_corpus_new" /\ prep.pc = "upload_pdfs_to_gcs"
    /\ prep.fileIdx <= Len(pdf_files)
    /\ LET f == pdf_files[prep.fileIdx]
       IN prep' = IF HasZoneIdentifier(f)
                  THEN [prep EXCEPT !.fileIdx = @ + 1]
                  ELSE [prep EXCEPT
                           !.fileIdx = @ + 1,
                           !.attempted = Append(@, f),
                           !.succeeded = IF ok THEN Append(@, f) ELSE @,
                           !.uploaded = IF ok THEN Append(@, GcsUri(prep.BUCKET_NAME, f))
                                        ELSE @]
    /\ UNCHANGED <<envFile, serviceVars, dataDir, cloud, runs>>

\* prepare_corpus_new.py, upload_pdfs_to_gcs returns (at once when there is no PDF)
upload_pdfs_to_gcs_returns ==
    /\ prep.script = "prepare_corpus_new" /\ prep.pc = "upload_pdfs_to_gcs"
    /\ prep.fileIdx > Len(pdf_files)
    /\ prep' = [prep EXCEPT !.pc = "create_data_store"]
    /\ UNCHANGED <<envFile, serviceVars, dataDir, cloud, runs>>

\* prepare_corpus_new.py, create_data_store: the client, get_data_store,
\* create_data_store and the wait for its result
create_data_store(outcome) ==
    /\ prep.script = "prepare_corpus_new" /\ prep.pc = "create_data_store"
    /\ LET name == "dataStores/" \o prep.DATA_STORE_NAME
       IN CASE outcome = "client_raises" ->
                 /\ prep' = MainExcept("create_data_store")
                 /\ UNCHANGED cloud
            [] outcome = "found" ->
                 /\ name \in cloud.dataStores
                 /\ prep' = [prep EXCEPT !.data_store = name, !.storeLookup = "found",
                                         !.pc = "import_documents"]
                 /\ UNCHANGED cloud
            [] outcome = "created" ->
                 /\ name \notin cloud.dataStores
                 /\ cloud' = [cloud EXCEPT !.dataStores = @ \cup {name},
                                           !.dataStoreCreates = @ + 1]
                 /\ prep' = [prep EXCEPT !.data_store = name, !.storeLookup = "raised",
                                         !.pc = "import_documents"]
            [] outcome = "create_raises" ->
                 /\ cloud' = [cloud EXCEPT !.dataStoreCreates = @ + 1]
                 /\ prep' = [MainExcept("create_data_store") EXCEPT !.storeLookup = "raised"]
            [] outcome = "result_raises" ->
                 /\ name \notin cloud.dataStores
                 /\ cloud' = [cloud EXCEPT !.dataStores = @ \cup {name},
                                           !.dataStoreCreates = @ + 1]
                 /\ prep' = [MainExcept("create_data_store") EXCEPT !.storeLookup = "raised"]
    /\ UNCHANGED <<envFile, serviceVars, dataDir, runs>>

\* a main() that writes .env before it imports the documents
import_documents_AfterEnvWrite(ok) ==
    /\ prep.script = "prepare_corpus_new" /\ prep.pc = "import_documents"
    /\ IF prep.uploaded = <<>>
       THEN /\ prep' = [prep EXCEPT !.pc = "update_env_file"]
            /\ UNCHANGED <<cloud, envFile>>
       ELSE /\ cloud' = [cloud EXCEPT !.imports = @ + 1]
            /\ envFile' = [exists |-> TRUE,
                           content |-> WriteLines(UpdatedLinesNew(
                               EnvLines, prep.DATA_STORE_NAME, prep.BUCKET_NAME,
                               prep.data_store))]
            /\ prep' = IF ok THEN [prep EXCEPT !.pc = "update_env_file"]
                       ELSE MainExcept("import_documents")
    /\ UNCHANGED <<serviceVars, dataDir, runs>>

\* prepare_corpus_new.py, main: "if gcs_uris: import_documents_to_datastore(...)"
import_documents(ok) ==
    /\ prep.script = "prepare_corpus_new" /\ prep.pc = "import_documents"
    /\ IF prep.uploaded = <<>>
       THEN /\ prep' = [prep EXCEPT !.pc = "update_env_file"]
            /\ UNCHANGED cloud
       ELSE /\ cloud' = [cloud EXCEPT !.imports = @ + 1]
            /\ prep' = IF ok THEN [prep EXCEPT !.pc = "update_env_file"]
                       ELSE MainExcept("import_documents")
    /\ UNCHANGED <<envFile, serviceVars, dataDir, runs>>

(* ------------------------- the service, as a whole -------------------- *)

\* the .env files a service is started with
DeployedEnvFiles ==
    { [exists |-> FALSE, content |-> <<>>],
      [exists |-> TRUE, content |-> <<"PROJECT_ID=", "quantik", NL>>],
      [exists |-> TRUE, content |-> <<"PROJECT_ID=", "quantik", NL, NL,
                                      "RAG_CORPUS=", "corpus0", NL>>] }

Fresh ==
    /\ proc = "off"
    /\ PROJECT_ID = None
    /\ RAG_CORPUS = None
    /\ INDEXING_MODE = None
    /\ rag_agent = None
    /\ rag_runner = None
    /\ session_service = None
    /\ sessions = {}
    /\ uuidCount = 0
    /\ initCalls = 0
    /\ initRaised = None
    /\ req = [r \in Reqs |-> IdleRequest]
    /\ healthLog = <<>>
    /\ cloud = NoCloud
    /\ prep = IdlePrep
    /\ runs = 0

Init ==
    /\ envFile \in DeployedEnvFiles
    /\ dataDir = [exists |-> FALSE, files |-> <<>>]
    /\ Fresh

Next ==
    \/ \E osProject \in {None, "quantik"}, osCorpus \in {None}, osIndexing \in {None, "true"},
          failure \in {None} \cup InitFailures :
          Startup(osProject, osCorpus, osIndexing, failure)
    \/ health_check
    \/ \E r \in Reqs, q \in Questions : QueryBegin(r, q)
    \/ \E r \in Reqs : CreateSession(r)
    \/ \E r \in Reqs, e \in Errors : CreateSessionRaises(r, e)
    \/ \E r \in Reqs : RunAsync(r)
    \/ \E r \in Reqs, content \in EventContents : RunEvent(r, content)
    \/ \E r \in Reqs, e \in Errors : RunRaises(r, e)
    \/ \E r \in Reqs : RunEnd(r)

Spec == Init /\ [][Next]_vars

(* ------------------- the preparation scripts, as a whole -------------- *)

Scripts == {"prepare_corpus", "prepare_corpus_new"}

\* a run of the scripts on any data directory
PrepInit ==
    /\ envFile \in DeployedEnvFiles
    /\ dataDir \in DataDirs
    /\ Fresh

PrepNext ==
    \/ \E s \in Scripts, osProject \in {None, "quantik"} : PrepImport(s, osProject)
    \/ \E ok \in BOOLEAN : create_corpus(ok)
    \/ \E ok \in BOOLEAN : upload_file(ok)
    \/ upload_documents_returns
    \/ \E outcome \in {"written", "read_raises", "open_raises", "write_raises"} :
          update_env_file(outcome)
    \/ \E outcome \in {"client_raises", "found", "created", "create_raises"} :
          create_gcs_bucket(outcome)
    \/ \E ok \in BOOLEAN : upload_blob(ok)
    \/ upload_pdfs_to_gcs_returns
    \/ \E outcome \in {"client_raises", "found", "created", "create_raises",
                        "result_raises"} :
          create_data_store(outcome)
    \/ \E ok \in BOOLEAN : import_documents(ok)

PrepSpec == PrepInit /\ [][PrepNext]_vars

\* a run of the scripts on any .env file
EnvInit ==
    /\ envFile \in EnvFiles
    /\ dataDir \in {[exists |-> FALSE, files |-> <<>>],
                    [exists |-> TRUE, files |-> << <<"inv1", ".pdf">> >>]}
    /\ Fresh

EnvSpec == EnvInit /\ [][PrepNext]_vars

(* ------------------------------ claims -------------------------------- *)

\* C1: a POST /query that arrives while the service is not Ready is answered
\* 503 at once: it gets no session id, creates no session, never runs the
\* agent and is never answered 200.
C1_NotReadyIs503 ==
    (proc = "serving" /\ ~Ready) =>
        /\ sessions = {}
        /\ uuidCount = 0
        /\ \A r \in Reqs : req[r].pc # "idle" =>
              /\ req[r].pc = "done"
              /\ req[r].status = 503
              /\ req[r].body = NotReadyDetail
              /\ req[r].session_id = 0
              /\ ~req[r].ran

C1_Witness ==
    /\ proc = "serving" /\ ~Ready
    /\ \A r \in Reqs : req[r].pc = "done" /\ req[r].status = 503

\* C2: in the Ready state, a request whose session creation or agent run
\* raised is answered 500 with a detail that carries the error raised; no
\* request in which something raised is answered 200.
C2_FailureIs500 ==
    \A r \in Reqs :
        /\ req[r].raised # None =>
              /\ req[r].status = 500
              /\ req[r].body = ErrorDetail(req[r].raised)
              /\ req[r].raised \in Range(req[r].body)
        /\ req[r].status = 200 => req[r].raised = None

C2_Witness ==
    /\ Ready
    /\ \E r \in Reqs : req[r].raised # None /\ req[r].ran /\ req[r].provided # <<>>
    /\ \E r \in Reqs : req[r].raised # None /\ ~req[r].ran

\* C3 (as claimed): the answer of a 200 response is made only of text the
\* provider produced in that request, and a run that produced no text is not
\* answered 200 with an empty or default answer.
C3_NoFabricatedAnswer ==
    \A r \in Reqs : req[r].status = 200 =>
        /\ req[r].provided # <<>>
        /\ Range(req[r].body) \subseteq Range(req[r].provided) \cup {" "}

\* C4 (as claimed): while RAG_CORPUS is not set, every POST /query is rejected
\* as not ready and none is answered 200.
C4_NoCorpusNoAnswer ==
    ~Truthy(RAG_CORPUS) =>
        \A r \in Reqs : req[r].pc = "done" => req[r].status = 503

\* C5 (as claimed): the agent is never run for a query without a retrieval in
\* the same request, and every 200 answer follows a retrieval.
C5_RetrievalBeforeGeneration ==
    \A r \in Reqs : (req[r].ran \/ req[r].status = 200) => req[r].retrieved

\* C6 (as claimed): when initialize_rag_components raised at startup the
\* process keeps serving: /health answers and queries are answered 503.
C6_DegradedKeepsServing ==
    initRaised # None =>
        /\ proc = "serving"
        /\ (Len(healthLog) < MaxHealth => ENABLED health_check)

\* C7: initialize_rag_components is called at most once and only by the
\* startup; no request changes whether the service is Ready, and a query
\* that completes in a process that is not Ready gets 503.
C7_InitOnceAtStartup ==
    [][ /\ initCalls' <= 1
        /\ (initCalls' # initCalls => proc = "off")
        /\ ((Ready' /\ ~Ready) => (proc = "off" /\ initCalls' = initCalls + 1))
        /\ (proc = "serving" => (proc' = "serving" /\ (Ready' <=> Ready)))
        /\ \A r \in Reqs :
              (proc = "serving" /\ ~Ready /\ req[r].pc # "done" /\ req'[r].pc = "done")
                  => req'[r].status = 503
      ]_vars

C7_Witness ==
    /\ proc = "serving" /\ ~Ready /\ initCalls = 0
    /\ healthLog # <<>>
    /\ \A r \in Reqs : req[r].status = 503

\* C8: in every state of a serving process GET /health can be answered, its
\* answer is 200 {"status": "OK"} whether or not the components exist, and it
\* leaves rag_agent, rag_runner and session_service as they were.
C8_HealthAlwaysOK ==
    /\ [](\A i \in 1..Len(healthLog) :
             healthLog[i].status = 200 /\ healthLog[i].body = HealthBody)
    /\ []((proc = "serving" /\ Len(healthLog) < MaxHealth) => ENABLED health_check)
    /\ [][healthLog' # healthLog =>
             UNCHANGED <<rag_agent, rag_runner, session_service, sessions, req>>]_vars

C8_Witness ==
    /\ proc = "serving" /\ ~Ready /\ INDEXING_MODE = "true"
    /\ \E i \in 1..Len(healthLog) : healthLog[i].status = 200 /\ ~healthLog[i].ready

\* C9 (as claimed): once the service serves, no handler reassigns or mutates
\* the agent, the runner or the session service and what it holds.
C9_NoMutationAfterLoad ==
    [][proc = "serving" =>
          UNCHANGED <<rag_agent, rag_runner, session_service, sessions>>]_vars

\* C9 (amended): once the service serves, no handler reassigns rag_agent,
\* rag_runner or session_service; the session service itself is mutated only
\* by gaining the session a query creates.
C9_ReferencesReadOnly ==
    [][proc = "serving" =>
          /\ UNCHANGED <<rag_agent, rag_runner, session_service>>
          /\ \/ sessions' = sessions
             \/ \E r \in Reqs : /\ req[r].pc = "create_session"
                                /\ req[r].session_id \notin sessions
                                /\ sessions' = sessions \cup {req[r].session_id}
      ]_vars

C9_Witness ==
    /\ Ready
    /\ Cardinality(sessions) = MaxReq
    /\ \E r \in Reqs : req[r].status = 500 /\ req[r].ran
    /\ healthLog # <<>>

\* C10: main() of either preparation script returns 1 whenever a step raised
\* into it (corpus, bucket or data store creation, document import, the
\* .env write) and 0 whenever every step returned, also when no PDF was
\* found or data/ is missing, and also when uploads of single files failed.
C10_ExitStatus ==
    /\ prep.raisedIn # None => (prep.pc = "done" /\ prep.rc = 1)
    /\ prep.pc = "done" =>
          /\ prep.rc \in {0, 1}
          /\ prep.rc = 1 <=> prep.raisedIn # None
          /\ prep.rc = 0 <=>
                /\ prep.raisedIn = None
                /\ IF prep.script = "prepare_corpus"
                   THEN prep.corpus # None /\ envFile.exists
                   ELSE prep.bucket # None /\ prep.data_store # None /\ envFile.exists
    /\ prep.pc \notin {"done"} => prep.rc = -1

C10_Witness ==
    /\ prep.pc = "done" /\ prep.rc = 0
    /\ prep.script = "prepare_corpus_new"
    /\ pdf_files = <<>> /\ prep.attempted = <<>>
    /\ runs >= 1

\* the loop over pdf_files has ended in the current run
UploadReturned == prep.fileIdx > Len(pdf_files)

\* the part of pdf_files the loop has gone through
FilesSeen ==
    SubSeq(pdf_files, 1, IF UploadReturned THEN Len(pdf_files) ELSE prep.fileIdx - 1)

\* s without the elements that are not in keep, in the order of s
RECURSIVE Restrict(_, _)
Restrict(s, keep) ==
    IF Len(s) = 0 THEN <<>>
    ELSE IF Head(s) \in keep THEN <<Head(s)>> \o Restrict(Tail(s), keep)
    ELSE Restrict(Tail(s), keep)

\* C11 (as claimed): when the upload function of either script returns,
\* every PDF of the directory has been attempted exactly once, in listing order.
C11_EveryPdfAttempted ==
    UploadReturned => prep.attempted = pdf_files

\* C11 (amended): the upload function never raises into main(); the uploads
\* attempted are, in listing order and once each, the PDFs of the directory
\* (in prepare_corpus_new.py: those whose name has no ":Zone.Identifier");
\* the list returned holds exactly the uploads that succeeded, in that
\* order; a missing directory or one without PDF gives the empty list.
C11_PerFileUpload ==
    /\ prep.raisedIn \notin {"upload_documents", "upload_pdfs_to_gcs"}
    /\ prep.fileIdx >= 1 =>
          /\ prep.attempted =
                IF prep.script = "prepare_corpus" THEN FilesSeen
                ELSE SelectSeq(FilesSeen, LAMBDA f : ~HasZoneIdentifier(f))
          /\ prep.succeeded = Restrict(prep.attempted, Range(prep.succeeded))
          /\ Len(prep.uploaded) = Len(prep.succeeded)
          /\ \A i \in 1..Len(prep.uploaded) :
                prep.uploaded[i] = IF prep.script = "prepare_corpus" THEN prep.succeeded[i]
                                   ELSE GcsUri(prep.BUCKET_NAME, prep.succeeded[i])
          /\ (UploadReturned /\ prep.pc \in {"upload_documents", "upload_pdfs_to_gcs"})
                => prep.raisedIn = None
    /\ (UploadReturned /\ pdf_files = <<>>) => prep.uploaded = <<>>

C11_Witness ==
    /\ UploadReturned
    /\ prep.script = "prepare_corpus" /\ prep.pc = "update_env_file"
    /\ Len(pdf_files) = 2
    /\ prep.attempted = pdf_files
    /\ prep.uploaded = <<pdf_files[2]>>

\* the value a service started on a .env file reads as RAG_CORPUS
RagCorpusOf(file) ==
    IF file.exists THEN LastValue(ReadLines(file.content), "RAG_CORPUS=", None) ELSE None

\* C12 (as claimed): a run of a preparation script that finds no PDF returns
\* success and writes no corpus or data store reference to .env: the value
\* of RAG_CORPUS a service reads afterwards is the one from before the run.
C12_EmptyDirPublishesNothing ==
    (prep.pc = "done" /\ pdf_files = <<>> /\ prep.raisedIn = None) =>
        /\ prep.rc = 0
        /\ RagCorpusOf(envFile) = RagCorpusOf(prep.env0)

\* C13: .env is written only by the last step of main(): while a run is at
\* an earlier step the file is as it was when the run started, and a run in
\* which corpus, bucket or data store creation or the document import raised
\* returns 1 and leaves .env exactly as it was.
C13_EnvWrittenLast ==
    /\ prep.pc \notin {"idle", "done"} => envFile = prep.env0
    /\ prep.raisedIn \in {"create_corpus", "create_gcs_bucket", "create_data_store",
                          "import_documents"} =>
          /\ prep.pc = "done" /\ prep.rc = 1
          /\ envFile = prep.env0
    /\ (prep.pc = "done" /\ envFile # prep.env0) =>
          /\ prep.raisedIn \in {None, "update_env_file"}
          /\ IF prep.script = "prepare_corpus" THEN prep.corpus # None
             ELSE prep.bucket # None /\ prep.data_store # None

C13_Witness ==
    /\ prep.pc = "done" /\ prep.rc = 1
    /\ prep.raisedIn = "import_documents"
    /\ prep.uploaded # <<>>
    /\ envFile.exists /\ envFile = prep.env0

\* a line without its line terminator
Body(line) == IF Len(line) > 0 /\ line[Len(line)] = NL THEN SubSeq(line, 1, Len(line) - 1) ELSE line

Bodies(lines) == [i \in 1..Len(lines) |-> Body(lines[i])]

\* the keys whose lines update_env_file of the running script removes
RemovedKeys ==
    IF prep.script = "prepare_corpus" THEN {"RAG_CORPUS="}
    ELSE {"RAG_CORPUS=", "DATA_STORE_NAME=", "BUCKET_NAME="}

\* the resource name update_env_file was called with
PublishedName == IF prep.script = "prepare_corpus" THEN prep.corpus ELSE prep.data_store

\* main() has returned 0: update_env_file has returned
EnvUpdated == prep.pc = "done" /\ prep.rc = 0

\* C14: after update_env_file returns, .env has exactly one line that starts
\* with RAG_CORPUS=, it carries the new name and it is the last line, and the
\* prior lines that start with none of the removed keys are all there, in
\* their original order, before every line the call added.
C14_OneCorpusLineLast ==
    EnvUpdated =>
        LET before == ReadLines(prep.env0.content)
            after == ReadLines(envFile.content)
            kept == SelectSeq(before, LAMBDA line :
                        \A key \in RemovedKeys : ~StartsWith(line, key))
        IN /\ envFile.exists
           /\ Cardinality({i \in 1..Len(after) : StartsWith(after[i], "RAG_CORPUS=")}) = 1
           /\ after[Len(after)] = <<"RAG_CORPUS=">> \o Tok(PublishedName) \o <<NL>>
           /\ Len(kept) < Len(after)
           /\ Bodies(kept) = SubSeq(Bodies(after), 1, Len(kept))

C14_Witness ==
    /\ EnvUpdated
    /\ prep.env0.exists
    /\ LET before == ReadLines(prep.env0.content)
       IN /\ Len(before) = 2
          /\ StartsWith(before[1], "RAG_CORPUS=")
          /\ LineValue(before[1]) # PublishedName
          /\ before[2] = <<"PROJECT_ID=", "quantik">>
    /\ ReadLines(envFile.content)[1] = <<"PROJECT_ID=", "quantik", NL>>

\* the content update_env_file leaves when it is called with the arguments of
\* the finished run on a file of the given content
UpdateAgain(content) ==
    WriteLines(IF prep.script = "prepare_corpus"
               THEN UpdatedLines(ReadLines(content), prep.corpus)
               ELSE UpdatedLinesNew(ReadLines(content), prep.DATA_STORE_NAME,
                                    prep.BUCKET_NAME, prep.data_store))

\* C15: update_env_file is idempotent: called once more with the same name on
\* the file it has just written, it leaves the content as it is, so the file
\* does not grow.
C15_UpdateIdempotent ==
    EnvUpdated =>
        /\ UpdateAgain(envFile.content) = envFile.content
        /\ Len(UpdateAgain(envFile.content)) <= Len(envFile.content)

\* the step of a run in which create_gcs_bucket has just returned or raised
BucketStep == prep.pc = "create_gcs_bucket" /\ prep'.pc # "create_gcs_bucket"

\* the step of a run in which create_data_store has just returned or raised
StoreStep == prep.pc = "create_data_store" /\ prep'.pc # "create_data_store"

\* C16: create_gcs_bucket and create_data_store are get-or-create. When the
\* lookup succeeds the existing resource is returned and no create call is
\* issued; when the lookup raises exactly one create call is attempted; and a
\* run of main() that follows a fully successful run adds no bucket and no
\* data store.
C16_GetOrCreate ==
    [][/\ BucketStep =>
            /\ prep'.bucketLookup = "found" =>
                  /\ cloud' = cloud
                  /\ prep.BUCKET_NAME \in cloud.buckets
                  /\ prep'.bucket = prep.BUCKET_NAME /\ prep'.raisedIn = None
            /\ prep'.bucketLookup = "raised" =>
                  cloud' = [cloud EXCEPT !.bucketCreates = @ + 1, !.buckets = cloud'.buckets]
            /\ prep'.bucketLookup = None => cloud' = cloud
       /\ StoreStep =>
            /\ prep'.storeLookup = "found" =>
                  /\ cloud' = cloud
                  /\ prep'.data_store \in cloud.dataStores /\ prep'.raisedIn = None
            /\ prep'.storeLookup = "raised" =>
                  cloud' = [cloud EXCEPT !.dataStoreCreates = @ + 1,
                                         !.dataStores = cloud'.dataStores]
            /\ prep'.storeLookup = None => cloud' = cloud
       /\ (prep.prevOk /\ prep'.script = prep.script) =>
            /\ cloud'.buckets = cloud.buckets
            /\ cloud'.dataStores = cloud.dataStores
            /\ BucketStep => prep.BUCKET_NAME \in cloud.buckets
            /\ StoreStep => ("dataStores/" \o prep.DATA_STORE_NAME) \in cloud.dataStores
      ]_vars

C16_Witness ==
    /\ prep.prevOk /\ prep.script = "prepare_corpus_new"
    /\ prep.pc = "done" /\ prep.rc = 0
    /\ prep.bucketLookup = "found" /\ prep.storeLookup = "found"
    /\ cloud.bucketCreates = 1 /\ cloud.dataStoreCreates = 1
    /\ Cardinality(cloud.buckets) = 1 /\ Cardinality(cloud.dataStores) = 1

\* the requests that passed the readiness check: those given a session id
PastReadiness == {r \in Reqs : req[r].session_id # 0}

\* the requests whose create_session returned
Created == {r \in Reqs : req[r].created}

SessionPerQuery ==
    /\ \A r \in PastReadiness : req[r].session_id \in 1..uuidCount
    /\ \A r, p \in PastReadiness : r # p => req[r].session_id # req[p].session_id
    /\ \A r \in Reqs : req[r].ran =>
          /\ req[r].created
          /\ req[r].run_session = req[r].session_id
          /\ req[r].run_session \in sessions
    /\ Created \subseteq PastReadiness
    /\ sessions = {req[r].session_id : r \in Created}
    /\ Cardinality(sessions) = Cardinality(Created)

\* C17: every query that passes the readiness check gets a fresh session id,
\* creates one session under it before the agent runs, runs the agent against
\* that session only and never deletes it: no two requests share a session,
\* the sessions held never decrease and there are as many as requests whose
\* create_session returned.
C17_SessionPerQuery ==
    [][/\ SessionPerQuery /\ SessionPerQuery'
       /\ sessions \subseteq sessions'
       /\ Cardinality(sessions') <= Cardinality(sessions) + 1
       /\ \A r \in Reqs : (req[r].pc = "create_session" /\ req'[r].pc = "run_async") =>
             /\ req[r].session_id \notin sessions
             /\ sessions' = sessions \cup {req[r].session_id}]_vars

C17_Witness ==
    /\ Created = Reqs
    /\ Cardinality(sessions) = MaxReq
    /\ \E r, p \in Reqs :
          /\ req[r].pc = "done" /\ req[r].status = 200
          /\ req[p].pc = "done" /\ req[p].status = 500 /\ req[p].ran

====
